---- MODULE Spec2Model ----
(***************************************************************************)
(* A model of src/app.py: the Flask front-end of a Bedrock knowledge base. *)
(*                                                                         *)
(* The main thread provisions the resources (BedrockKnowledgeBase          *)
(* construction, called by initialize_kb from __main__), then the          *)
(* development server answers requests, each on a thread of its own.  An   *)
(* action is one outbound call of a handler together with the local code   *)
(* that follows it up to the next outbound call.  The managed services     *)
(* (S3, IAM, Bedrock) are modelled by what exists in the account: a call   *)
(* that addresses a resource that does not exist fails with NotFound, any  *)
(* other call succeeds or fails with ServiceError.                         *)
(***************************************************************************)
EXTENDS Naturals, Sequences, FiniteSets

\* ------------------------------------------------------------------ bounds

\* Requests the server accepts in one run of the model.
MaxRequests == 3

\* Worker threads of the development server that run handlers concurrently.
Threads == {"t1", "t2"}

\* ----------------------------------------------------------------- strings
\* A filename is a sequence of one-character strings.

\* self.kb_id = None
None == 0

OK == "ok"
NotFound == "NotFound"
ServiceError == "ServiceError"
IOError == "IOError"

\* str.lower(), on the characters the model's filenames use.
Lower(c) ==
    CASE c = "P" -> "p"
      [] c = "D" -> "d"
      [] c = "F" -> "f"
      [] c = "A" -> "a"
      [] OTHER -> c

LowerStr(s) == [i \in 1..Len(s) |-> Lower(s[i])]

Front(s) == SubSeq(s, 1, Len(s) - 1)

Last(s) == s[Len(s)]

\* app.config['ALLOWED_EXTENSIONS'] = {'pdf'}
ALLOWED_EXTENSIONS == {<<"p", "d", "f">>}

\* filename.rsplit('.', 1)[1] for a filename that holds a '.': what follows
\* the last '.'.
RECURSIVE rsplit_tail(_)
rsplit_tail(s) ==
    IF s = <<>> \/ Last(s) = "." THEN <<>>
    ELSE Append(rsplit_tail(Front(s)), Last(s))

\* filename.split('.')[1]: what lies between the first '.' and the second.
RECURSIVE split_second(_, _)
split_second(s, seen) ==
    IF s = <<>> THEN <<>>
    ELSE IF Head(s) = "." THEN (IF seen THEN <<>> ELSE split_second(Tail(s), TRUE))
    ELSE IF seen THEN <<Head(s)>> \o split_second(Tail(s), seen)
    ELSE split_second(Tail(s), seen)

\* A slip: the extension is read after the first '.', not the last.
allowed_file_FirstDot(filename) ==
    /\ \E i \in 1..Len(filename) : filename[i] = "."
    /\ LowerStr(split_second(filename, FALSE)) \in ALLOWED_EXTENSIONS

allowed_file(filename) ==
    /\ \E i \in 1..Len(filename) : filename[i] = "."
    /\ LowerStr(rsplit_tail(filename)) \in ALLOWED_EXTENSIONS

\* werkzeug's secure_filename, on ASCII input:
\*   path separators become spaces,
ReplaceSep(s) == [i \in 1..Len(s) |-> IF s[i] = "/" THEN " " ELSE s[i]]

\*   "_".join(filename.split()): runs of white space become one "_", leading
\*   and trailing white space goes,
RECURSIVE JoinSplit(_, _, _)
JoinSplit(s, out, gap) ==
    IF s = <<>> THEN out
    ELSE IF Head(s) = " " THEN JoinSplit(Tail(s), out, out # <<>>)
    ELSE JoinSplit(Tail(s),
                   (IF gap THEN Append(out, "_") ELSE out) \o <<Head(s)>>,
                   FALSE)

\*   characters outside [A-Za-z0-9_.-] go,
SafeChars == {"a", "t", "p", "d", "f", "A", "P", "D", "F", ".", "_", "-"}

IsSafeChar(c) == c \in SafeChars

\*   and so do leading and trailing '.' and '_' (str.strip("._")).
RECURSIVE LStrip(_)
LStrip(s) ==
    IF s # <<>> /\ Head(s) \in {".", "_"} THEN LStrip(Tail(s)) ELSE s

RECURSIVE RStrip(_)
RStrip(s) ==
    IF s # <<>> /\ Last(s) \in {".", "_"} THEN RStrip(Front(s)) ELSE s

secure_filename(filename) ==
    RStrip(LStrip(SelectSeq(JoinSplit(ReplaceSep(filename), <<>>, FALSE),
                            IsSafeChar)))

\* The filenames a client sends: "", "a", "pdf", "a.t", "a.pdf.t", and the
\* accepted "a.pdf", "a.PDF", "/a.pdf".
FileNames ==
    { <<>>,
      <<"a">>,
      <<"p", "d", "f">>,
      <<"a", ".", "t">>,
      <<"a", ".", "p", "d", "f", ".", "t">>,
      <<"a", ".", "p", "d", "f">>,
      <<"a", ".", "P", "D", "F">>,
      <<"/", "a", ".", "p", "d", "f">> }

\* os.path.join(app.config['UPLOAD_FOLDER'], filename): the local paths, named
\* by the sanitized filename.
Paths == {secure_filename(f) : f \in FileNames}

\* request.form.get('query'): absent, empty, or a text.
NoQuery == "None"
Queries == {NoQuery, "", "q"}

\* ------------------------------------------------------------------- state

VARIABLES
    pcMain,       \* where the main thread is: a provisioning step, serving, crashed
    mainCalls,    \* the provisioning calls issued so far, each with its outcome
    kb_instance,  \* the global kb_instance: "unbound" or "bound"
    kb_id,        \* kb_instance.kb_id (self.kb_id): None or the identifier
    bucket,       \* the data bucket exists
    objects,      \* the bucket's objects: key -> content, or Absent
    role,         \* the IAM role exists
    policy,       \* the IAM policy exists
    attached,     \* the policy is attached to the role
    kbs,          \* the knowledge bases that exist
    dataSources,  \* the data sources that exist (of the knowledge base)
    jobs,         \* ingestion jobs started so far
    files,        \* the upload folder: path -> content, or Absent
    req,          \* per thread: the request it handles
    started,      \* requests accepted so far
    lastCleanup   \* how the last finished GET /cleanup ended: none, ok, error

vars == <<pcMain, mainCalls, kb_instance, kb_id, bucket, objects, role, policy,
          attached, kbs, dataSources, jobs, files, req, started, lastCleanup>>

aws == <<bucket, objects, role, policy, attached, kbs, dataSources, jobs>>

\* A file's or an object's content is named by the thread whose request sent
\* it; Absent: there is no such file or object.
Absent == "absent"

\* What a call to a managed service can answer: NotFound when the resource it
\* addresses does not exist, else success or a service error.
Outcomes(present) == IF present THEN {OK, ServiceError} ELSE {NotFound}

Call(op, err) == [op |-> op, err |-> err]

\* A thread that handles no request.
Idle ==
    [kind |-> "none", pc |-> "idle", method |-> "", hasFile |-> FALSE,
     filename |-> <<>>, path |-> <<>>, query |-> NoQuery, purge |-> FALSE,
     prev |-> "none", calls |-> <<>>, status |-> 0, err |-> OK,
     unhandled |-> FALSE, json |-> FALSE, saved |-> FALSE, sawFile |-> FALSE,
     leftFile |-> FALSE, dsLeft |-> {}, keys |-> {}, jobId |-> 0,
     respName |-> <<>>, key |-> <<>>, sent |-> Absent, returnedJob |-> 0,
     racing |-> FALSE]

Init ==
    /\ pcMain = "create_bucket"
    /\ mainCalls = <<>>
    /\ kb_instance = "unbound"
    /\ kb_id = None
    /\ bucket = FALSE
    /\ objects = [p \in Paths |-> Absent]
    /\ role = FALSE
    /\ policy = FALSE
    /\ attached = FALSE
    /\ kbs = {}
    /\ dataSources = {}
    /\ jobs = 0
    /\ files = [p \in Paths |-> Absent]
    /\ req = [t \in Threads |-> Idle]
    /\ started = 0
    /\ lastCleanup = "none"

\* ------------------------------------------- provisioning (the main thread)

\* _setup_knowledge_base and _create_role_for_kb: the step that follows `step`
\* when it ended with `err`.  A failed create_bucket is logged and passed over;
\* any other failure is re-raised, leaves initialize_kb and ends the process.
SetupOrder ==
    <<"create_bucket", "create_role", "create_policy", "attach_role_policy",
      "create_knowledge_base", "create_data_source", "serving">>

StepAfter(step) ==
    SetupOrder[(CHOOSE i \in 1..Len(SetupOrder) : SetupOrder[i] = step) + 1]

\* A slip: a failed create_data_source is answered by creating the knowledge
\* base again.
SetupNext_Retry(step, err) ==
    IF step = "create_bucket" \/ err = OK THEN StepAfter(step)
    ELSE IF step = "create_data_source" THEN "create_knowledge_base"
    ELSE "crashed"

SetupNext(step, err) ==
    IF step = "create_bucket" \/ err = OK THEN StepAfter(step) ELSE "crashed"

\* The main thread moves on from `step`; kb_instance is bound when the
\* constructor returns (initialize_kb).
SetupAdvance(step, err) ==
    /\ pcMain' = SetupNext(step, err)
    /\ mainCalls' = Append(mainCalls, Call(step, err))
    /\ kb_instance' = IF SetupNext(step, err) = "serving" THEN "bound"
                      ELSE kb_instance
    /\ UNCHANGED <<files, req, started, lastCleanup, objects, jobs>>

\* s3_client.create_bucket(Bucket=source["bucket_name"])
CreateBucket ==
    /\ pcMain = "create_bucket"
    /\ \E err \in Outcomes(TRUE) :
          /\ bucket' = (err = OK)
          /\ SetupAdvance("create_bucket", err)
    /\ UNCHANGED <<kb_id, role, policy, attached, kbs, dataSources>>

\* iam_client.create_role(...)
CreateRole ==
    /\ pcMain = "create_role"
    /\ \E err \in Outcomes(TRUE) :
          /\ role' = (err = OK)
          /\ SetupAdvance("create_role", err)
    /\ UNCHANGED <<kb_id, bucket, policy, attached, kbs, dataSources>>

\* iam_client.create_policy(...)
CreatePolicy ==
    /\ pcMain = "create_policy"
    /\ \E err \in Outcomes(TRUE) :
          /\ policy' = (err = OK)
          /\ SetupAdvance("create_policy", err)
    /\ UNCHANGED <<kb_id, bucket, role, attached, kbs, dataSources>>

\* iam_client.attach_role_policy(...)
AttachRolePolicy ==
    /\ pcMain = "attach_role_policy"
    /\ \E err \in Outcomes(role /\ policy) :
          /\ attached' = (err = OK)
          /\ SetupAdvance("attach_role_policy", err)
    /\ UNCHANGED <<kb_id, bucket, role, policy, kbs, dataSources>>

\* bedrock_agent_client.create_knowledge_base(...) and self.kb_id = ...
CreateKnowledgeBase ==
    /\ pcMain = "create_knowledge_base"
    /\ \E err \in Outcomes(role) :
          /\ kbs' = IF err = OK THEN kbs \cup {Cardinality(kbs) + 1} ELSE kbs
          /\ kb_id' = IF err = OK THEN Cardinality(kbs) + 1 ELSE kb_id
          /\ SetupAdvance("create_knowledge_base", err)
    /\ UNCHANGED <<bucket, role, policy, attached, dataSources>>

\* _add_s3_data_source: bedrock_agent_client.create_data_source(...)
AddS3DataSource ==
    /\ pcMain = "create_data_source"
    /\ \E err \in Outcomes(kb_id \in kbs) :
          /\ dataSources' = IF err = OK THEN dataSources \cup {1}
                            ELSE dataSources
          /\ SetupAdvance("create_data_source", err)
    /\ UNCHANGED <<kb_id, bucket, role, policy, attached, kbs>>

Setup ==
    \/ CreateBucket
    \/ CreateRole
    \/ CreatePolicy
    \/ AttachRolePolicy
    \/ CreateKnowledgeBase
    \/ AddS3DataSource

\* ---------------------------------------------------------------- requests

\* The server accepts a request on an idle thread once app.run is reached.
Accepts(t) ==
    /\ pcMain = "serving"
    /\ req[t] = Idle
    /\ started < MaxRequests

\* The request record of a handler that starts; racing: a GET /cleanup is
\* being handled on another thread at that moment.
Begin(kind, method) ==
    [Idle EXCEPT !.kind = kind, !.method = method,
                 !.racing = \E u \in Threads :
                               req[u].kind = "cleanup" /\ req[u].pc # "done"]

\* return jsonify(...), status: the handler's own response.
Respond(r, status, err) ==
    [r EXCEPT !.pc = "done", !.status = status, !.err = err, !.json = TRUE]

\* return render_template(...) or the answer text: a response that is not JSON.
RespondText(r) ==
    [r EXCEPT !.pc = "done", !.status = 200, !.err = OK, !.json = FALSE]

\* An exception no handler catches: Flask answers 500 itself.
Unhandled(r, err) ==
    [r EXCEPT !.pc = "done", !.status = 500, !.err = err, !.json = FALSE,
              !.unhandled = TRUE]

Log(r, op, err) == [r EXCEPT !.calls = Append(@, Call(op, err))]

\* The thread retires: the response has gone out.
Retire(t) ==
    /\ req[t].pc = "done"
    /\ req' = [req EXCEPT ![t] = Idle]
    /\ UNCHANGED <<pcMain, mainCalls, kb_instance, kb_id, aws, files, started,
                   lastCleanup>>

\* --------------------------------------------------------------- /upload

\* upload_file up to file.save: the checks of the request.
upload_validate(r) ==
    IF r.method = "GET" THEN RespondText(r)
    ELSE IF ~r.hasFile THEN Respond(r, 400, "No file part")
    ELSE IF r.filename = <<>> THEN Respond(r, 400, "No selected file")
    ELSE IF allowed_file(r.filename)
         THEN [r EXCEPT !.path = secure_filename(r.filename), !.pc = "save"]
    ELSE Respond(r, 400, "Invalid file type")

UploadStart(t) ==
    /\ Accepts(t)
    /\ \E method \in {"GET", "POST"}, hasFile \in BOOLEAN, fn \in FileNames :
          /\ (method = "GET" \/ ~hasFile) => fn = <<>>
          /\ method = "GET" => ~hasFile
          /\ req' = [req EXCEPT ![t] =
                       upload_validate([Begin("upload", method) EXCEPT
                                           !.hasFile = hasFile,
                                           !.filename = fn])]
    /\ started' = started + 1
    /\ UNCHANGED <<pcMain, mainCalls, kb_instance, kb_id, aws, files,
                   lastCleanup>>

\* file.save(file_path), outside the try: the file is written whole, or the
\* write fails after the file was created, or the file cannot be created.
UploadSave(t) ==
    /\ req[t].pc = "save"
    /\ \E out \in {"saved", "partial", "failed"} :
          LET r == req[t]
              written == IF out = "failed" THEN files
                         ELSE [files EXCEPT ![r.path] = t]
          IN  /\ files' = written
              /\ req' = [req EXCEPT ![t] =
                    IF out = "saved"
                    THEN [r EXCEPT !.saved = TRUE, !.pc = "s3_upload"]
                    ELSE [Unhandled(r, IOError) EXCEPT
                             !.saved = (out = "partial"),
                             !.leftFile = (written[r.path] # Absent)]]
    /\ UNCHANGED <<pcMain, mainCalls, kb_instance, kb_id, aws, started,
                   lastCleanup>>

\* A slip: the ingestion is started whether or not the upload succeeded.
UploadNext_IngestAnyway(pc, err) ==
    IF pc = "s3_upload" THEN "start_ingestion" ELSE "exists"

\* The try block of upload_file: what follows a call that ended with `err`.
UploadNext(pc, err) ==
    IF pc = "s3_upload" /\ err = OK THEN "start_ingestion" ELSE "exists"

\* s3_client.upload_file(file_path, data_bucket_name, filename)
UploadS3(t) ==
    /\ req[t].pc = "s3_upload"
    /\ LET r == req[t] IN
       \E err \in (IF files[r.path] = Absent THEN {IOError} ELSE Outcomes(bucket)) :
          /\ objects' = IF err = OK
                        THEN [objects EXCEPT ![r.path] = files[r.path]]
                        ELSE objects
          /\ req' = [req EXCEPT ![t] =
                [Log(r, "upload_file", err) EXCEPT
                    !.pc = UploadNext("s3_upload", err),
                    !.status = IF err = OK THEN 0 ELSE 500,
                    !.err = err,
                    !.key = IF err = OK THEN r.path ELSE <<>>,
                    !.sent = IF err = OK THEN files[r.path] ELSE Absent]]
    /\ UNCHANGED <<pcMain, mainCalls, kb_instance, kb_id, bucket, role, policy,
                   attached, kbs, dataSources, jobs, files, started,
                   lastCleanup>>

\* A slip: the response names the file as the client sent it.
upload_response_RawName(r, job) ==
    [r EXCEPT !.status = 200, !.err = OK, !.respName = r.filename,
              !.jobId = job]

\* The response of the try block: jsonify({'message': ..., 'filename':
\* filename, 'ingestion_job_id': ingestion_job_id}).
upload_response(r, job) ==
    [r EXCEPT !.status = 200, !.err = OK, !.respName = r.path, !.jobId = job]

\* kb_instance.start_ingestion_job() and the response the try block returns.
UploadIngest(t) ==
    /\ req[t].pc = "start_ingestion"
    /\ LET r == req[t] IN
       \E err \in Outcomes(kb_id \in kbs) :
          /\ jobs' = IF err = OK THEN jobs + 1 ELSE jobs
          /\ req' = [req EXCEPT ![t] =
                LET called == [Log(r, "start_ingestion_job", err) EXCEPT
                                  !.pc = UploadNext("start_ingestion", err),
                                  !.returnedJob = IF err = OK THEN jobs + 1
                                                  ELSE 0]
                IN  IF err = OK THEN upload_response(called, jobs + 1)
                    ELSE [called EXCEPT !.status = 500, !.err = err]]
    /\ UNCHANGED <<pcMain, mainCalls, kb_instance, kb_id, bucket, objects, role,
                   policy, attached, kbs, dataSources, files, started,
                   lastCleanup>>

\* finally: if os.path.exists(file_path)
UploadExists(t) ==
    /\ req[t].pc = "exists"
    /\ LET r == req[t]
           saw == files[r.path] # Absent
       IN  req' = [req EXCEPT ![t] =
                IF saw THEN [r EXCEPT !.sawFile = TRUE, !.pc = "remove"]
                ELSE [r EXCEPT !.pc = "done", !.json = TRUE,
                               !.leftFile = FALSE]]
    /\ UNCHANGED <<pcMain, mainCalls, kb_instance, kb_id, aws, files, started,
                   lastCleanup>>

\* finally: os.remove(file_path), then the response of the try block goes out;
\* os.remove raises when the file has gone since the check.
UploadRemove(t) ==
    /\ req[t].pc = "remove"
    /\ LET r == req[t] IN
          /\ files' = [files EXCEPT ![r.path] = Absent]
          /\ req' = [req EXCEPT ![t] =
                IF files[r.path] # Absent
                THEN [r EXCEPT !.pc = "done", !.json = TRUE, !.leftFile = FALSE]
                ELSE Unhandled(r, IOError)]
    /\ UNCHANGED <<pcMain, mainCalls, kb_instance, kb_id, aws, started,
                   lastCleanup>>

Upload(t) ==
    \/ UploadStart(t)
    \/ UploadSave(t)
    \/ UploadS3(t)
    \/ UploadIngest(t)
    \/ UploadExists(t)
    \/ UploadRemove(t)

\* ---------------------------------------------------------------- /query

\* A slip: only a missing field is refused, an empty one is not.
query_validate_MissingOnly(r) ==
    IF r.method = "GET" THEN RespondText(r)
    ELSE IF r.query = NoQuery THEN Respond(r, 400, "No query provided")
    ELSE [r EXCEPT !.pc = "retrieve"]

\* query_kb up to the try block: the check of the form field.
query_validate(r) ==
    IF r.method = "GET" THEN RespondText(r)
    ELSE IF r.query = NoQuery \/ r.query = "" THEN Respond(r, 400, "No query provided")
    ELSE [r EXCEPT !.pc = "retrieve"]

QueryStart(t) ==
    /\ Accepts(t)
    /\ \E method \in {"GET", "POST"}, q \in Queries :
          /\ method = "GET" => q = NoQuery
          /\ req' = [req EXCEPT ![t] =
                       query_validate([Begin("query", method) EXCEPT !.query = q])]
    /\ started' = started + 1
    /\ UNCHANGED <<pcMain, mainCalls, kb_instance, kb_id, aws, files,
                   lastCleanup>>

\* A slip: a failed retrieval is tried again.
QueryNext_Retry(pc, err) ==
    IF pc = "retrieve" THEN (IF err = OK THEN "invoke_model" ELSE "retrieve")
    ELSE "done"

\* The try block of query_kb: what follows a call that ended with `err`.
QueryNext(pc, err) ==
    IF pc = "retrieve" /\ err = OK THEN "invoke_model" ELSE "done"

\* The response of query_kb once a call ended with `err`: the answer text
\* after the generation, or the except clause's 500 with str(e).
QueryAfter(r, op, err) ==
    LET pc == QueryNext(r.pc, err)
        logged == Log(r, op, err)
    IN  IF pc # "done" THEN [logged EXCEPT !.pc = pc]
        ELSE IF err = OK THEN RespondText(logged)
        ELSE Respond(logged, 500, err)

\* bedrock_agent_runtime_client.retrieve(...)
QueryRetrieve(t) ==
    /\ req[t].pc = "retrieve"
    /\ \E err \in Outcomes(kb_id \in kbs) :
          req' = [req EXCEPT ![t] = QueryAfter(req[t], "retrieve", err)]
    /\ UNCHANGED <<pcMain, mainCalls, kb_instance, kb_id, aws, files, started,
                   lastCleanup>>

\* bedrock_agent_runtime_client.invoke_model(...)
QueryInvokeModel(t) ==
    /\ req[t].pc = "invoke_model"
    /\ \E err \in Outcomes(TRUE) :
          req' = [req EXCEPT ![t] = QueryAfter(req[t], "invoke_model", err)]
    /\ UNCHANGED <<pcMain, mainCalls, kb_instance, kb_id, aws, files, started,
                   lastCleanup>>

Query(t) ==
    \/ QueryStart(t)
    \/ QueryRetrieve(t)
    \/ QueryInvokeModel(t)

\* --------------------------------------------------------------- /status

StatusStart(t) ==
    /\ Accepts(t)
    /\ req' = [req EXCEPT ![t] =
                 [Begin("status", "GET") EXCEPT !.pc = "get_knowledge_base"]]
    /\ started' = started + 1
    /\ UNCHANGED <<pcMain, mainCalls, kb_instance, kb_id, aws, files,
                   lastCleanup>>

\* The try block of status: what follows a call that ended with `err`.
StatusNext(pc, err) ==
    IF pc = "get_knowledge_base" /\ err = OK THEN "list_ingestion_jobs"
    ELSE "done"

StatusAfter(r, op, err) ==
    LET pc == StatusNext(r.pc, err)
        logged == Log(r, op, err)
    IN  IF pc # "done" THEN [logged EXCEPT !.pc = pc]
        ELSE Respond(logged, IF err = OK THEN 200 ELSE 500, err)

\* bedrock_agent_client.get_knowledge_base(knowledgeBaseId=kb_id)
StatusGetKb(t) ==
    /\ req[t].pc = "get_knowledge_base"
    /\ \E err \in Outcomes(kb_id \in kbs) :
          req' = [req EXCEPT ![t] = StatusAfter(req[t], "get_knowledge_base", err)]
    /\ UNCHANGED <<pcMain, mainCalls, kb_instance, kb_id, aws, files, started,
                   lastCleanup>>

\* bedrock_agent_client.list_ingestion_jobs(knowledgeBaseId=kb_id)
StatusListJobs(t) ==
    /\ req[t].pc = "list_ingestion_jobs"
    /\ \E err \in Outcomes(kb_id \in kbs) :
          req' = [req EXCEPT ![t] = StatusAfter(req[t], "list_ingestion_jobs", err)]
    /\ UNCHANGED <<pcMain, mainCalls, kb_instance, kb_id, aws, files, started,
                   lastCleanup>>

Status(t) ==
    \/ StatusStart(t)
    \/ StatusGetKb(t)
    \/ StatusListJobs(t)

\* ------------------------------------------------- /cleanup and delete_kb

\* A slip: the storage is purged before the knowledge base is deleted.
DeleteKbNext_StorageFirst(pc, kbid, purge, left, keys) ==
    CASE pc = "entry" ->
            IF kbid # None THEN "list_data_sources" ELSE "return"
      [] pc \in {"list_data_sources", "delete_data_source"} ->
            IF left # {} THEN "delete_data_source"
            ELSE IF purge THEN "list_objects_v2" ELSE "delete_knowledge_base"
      [] pc = "list_objects_v2" ->
            IF keys # {} THEN "delete_objects" ELSE "delete_bucket"
      [] pc = "delete_objects" -> "delete_bucket"
      [] pc = "delete_bucket" -> "delete_knowledge_base"
      [] OTHER -> "return"

\* A slip: the storage is purged whether or not the caller asked for it.
DeleteKbNext_AlwaysPurge(pc, kbid, purge, left, keys) ==
    CASE pc = "entry" ->
            IF kbid # None THEN "list_data_sources" ELSE "return"
      [] pc \in {"list_data_sources", "delete_data_source"} ->
            IF left # {} THEN "delete_data_source" ELSE "delete_knowledge_base"
      [] pc = "delete_knowledge_base" -> "list_objects_v2"
      [] pc = "list_objects_v2" ->
            IF keys # {} THEN "delete_objects" ELSE "delete_bucket"
      [] pc = "delete_objects" -> "delete_bucket"
      [] OTHER -> "return"

\* delete_kb: the call that follows the step `pc` once it has succeeded, with
\* the data sources still to delete (`left`) and the keys list_objects_v2
\* returned (`keys`).  self.data_sources holds the one S3 source.
DeleteKbNext(pc, kbid, purge, left, keys) ==
    CASE pc = "entry" ->
            IF kbid # None THEN "list_data_sources" ELSE "return"
      [] pc \in {"list_data_sources", "delete_data_source"} ->
            IF left # {} THEN "delete_data_source" ELSE "delete_knowledge_base"
      [] pc = "delete_knowledge_base" ->
            IF purge THEN "list_objects_v2" ELSE "return"
      [] pc = "list_objects_v2" ->
            IF keys # {} THEN "delete_objects" ELSE "delete_bucket"
      [] pc = "delete_objects" -> "delete_bucket"
      [] OTHER -> "return"

\* A slip: cleanup lets the exception of delete_kb through.
CleanupRespond_Uncaught(r, err) ==
    IF err = OK THEN Respond(r, 200, OK) ELSE Unhandled(r, err)

\* cleanup: the response once delete_kb returned (err = OK) or raised.
CleanupRespond(r, err) ==
    IF err = OK THEN Respond(r, 200, OK) ELSE Respond(r, 500, err)

\* delete_kb called on the manager directly: it returns, or the exception it
\* re-raises reaches the caller.
DirectReturn(r, err) ==
    [r EXCEPT !.pc = "done", !.err = err, !.unhandled = (err # OK)]

\* delete_kb after the step req.pc ended with `err`: the next call, or the end
\* of delete_kb and with it the response.
DeleteKbAfter(r, op, err, left, keys) ==
    LET logged == IF op = "entry" THEN r ELSE Log(r, op, err)
        pc == IF err = OK THEN DeleteKbNext(op, kb_id, r.purge, left, keys)
              ELSE "return"
    IN  IF pc # "return"
        THEN [logged EXCEPT !.pc = pc, !.dsLeft = left, !.keys = keys]
        ELSE IF r.kind = "cleanup" THEN CleanupRespond(logged, err)
        ELSE DirectReturn(logged, err)

\* lastCleanup once the thread's step is taken.
CleanupNoted(t) ==
    lastCleanup' =
        IF req'[t].pc = "done" /\ req'[t].kind = "cleanup"
        THEN (IF req'[t].status = 200 THEN "ok" ELSE "error")
        ELSE lastCleanup

\* GET /cleanup: kb_instance.delete_kb(delete_s3_bucket=True), up to its
\* first call.
CleanupStart(t) ==
    /\ Accepts(t)
    /\ req' = [req EXCEPT ![t] =
          DeleteKbAfter([Begin("cleanup", "GET") EXCEPT
                            !.purge = TRUE, !.prev = lastCleanup],
                        "entry", OK, {}, {})]
    /\ started' = started + 1
    /\ CleanupNoted(t)
    /\ UNCHANGED <<pcMain, mainCalls, kb_instance, kb_id, aws, files>>

\* bedrock_agent_client.list_data_sources(knowledgeBaseId=self.kb_id)
ListDataSources(t) ==
    /\ req[t].pc = "list_data_sources"
    /\ \E err \in Outcomes(kb_id \in kbs) :
          req' = [req EXCEPT ![t] =
                DeleteKbAfter(req[t], "list_data_sources", err,
                              IF err = OK THEN dataSources ELSE {}, {})]
    /\ CleanupNoted(t)
    /\ UNCHANGED <<pcMain, mainCalls, kb_instance, kb_id, aws, files, started>>

\* bedrock_agent_client.delete_data_source(...), once per listed data source
DeleteDataSource(t) ==
    /\ req[t].pc = "delete_data_source"
    /\ \E ds \in req[t].dsLeft :
       \E err \in Outcomes(kb_id \in kbs /\ ds \in dataSources) :
          /\ dataSources' = IF err = OK THEN dataSources \ {ds} ELSE dataSources
          /\ req' = [req EXCEPT ![t] =
                DeleteKbAfter(req[t], "delete_data_source", err,
                              req[t].dsLeft \ {ds}, {})]
    /\ CleanupNoted(t)
    /\ UNCHANGED <<pcMain, mainCalls, kb_instance, kb_id, bucket, objects, role,
                   policy, attached, kbs, jobs, files, started>>

\* bedrock_agent_client.delete_knowledge_base(knowledgeBaseId=self.kb_id)
DeleteKnowledgeBase(t) ==
    /\ req[t].pc = "delete_knowledge_base"
    /\ \E err \in Outcomes(kb_id \in kbs) :
          /\ kbs' = IF err = OK THEN kbs \ {kb_id} ELSE kbs
          /\ req' = [req EXCEPT ![t] =
                DeleteKbAfter(req[t], "delete_knowledge_base", err, {}, {})]
    /\ CleanupNoted(t)
    /\ UNCHANGED <<pcMain, mainCalls, kb_instance, kb_id, bucket, objects, role,
                   policy, attached, dataSources, jobs, files, started>>

\* s3_client.list_objects_v2(Bucket=source["bucket_name"])
ListObjects(t) ==
    /\ req[t].pc = "list_objects_v2"
    /\ \E err \in Outcomes(bucket) :
          req' = [req EXCEPT ![t] =
                DeleteKbAfter(req[t], "list_objects_v2", err, {},
                              IF err = OK
                              THEN {p \in Paths : objects[p] # Absent}
                              ELSE {})]
    /\ CleanupNoted(t)
    /\ UNCHANGED <<pcMain, mainCalls, kb_instance, kb_id, aws, files, started>>

\* s3_client.delete_objects(Bucket=..., Delete=delete_keys)
DeleteObjects(t) ==
    /\ req[t].pc = "delete_objects"
    /\ \E err \in Outcomes(bucket) :
          /\ objects' = IF err = OK
                        THEN [p \in Paths |-> IF p \in req[t].keys THEN Absent
                                              ELSE objects[p]]
                        ELSE objects
          /\ req' = [req EXCEPT ![t] =
                DeleteKbAfter(req[t], "delete_objects", err, {}, {})]
    /\ CleanupNoted(t)
    /\ UNCHANGED <<pcMain, mainCalls, kb_instance, kb_id, bucket, role, policy,
                   attached, kbs, dataSources, jobs, files, started>>

\* s3_client.delete_bucket(Bucket=...): S3 refuses a bucket that holds objects.
DeleteBucket(t) ==
    /\ req[t].pc = "delete_bucket"
    /\ \E err \in (IF bucket /\ \E p \in Paths : objects[p] # Absent
                   THEN {"BucketNotEmpty"} ELSE Outcomes(bucket)) :
          /\ bucket' = IF err = OK THEN FALSE ELSE bucket
          /\ req' = [req EXCEPT ![t] =
                DeleteKbAfter(req[t], "delete_bucket", err, {}, {})]
    /\ CleanupNoted(t)
    /\ UNCHANGED <<pcMain, mainCalls, kb_instance, kb_id, objects, role, policy,
                   attached, kbs, dataSources, jobs, files, started>>

DeleteKb(t) ==
    \/ ListDataSources(t)
    \/ DeleteDataSource(t)
    \/ DeleteKnowledgeBase(t)
    \/ ListObjects(t)
    \/ DeleteObjects(t)
    \/ DeleteBucket(t)

\* A caller that holds the manager calls delete_kb on it directly, also after
\* its constructor raised: the delete() of the component design.
DirectDeleteKb(t) ==
    /\ pcMain \in {"serving", "crashed"}
    /\ req[t] = Idle
    /\ started < MaxRequests
    /\ \E purge \in BOOLEAN :
          req' = [req EXCEPT ![t] =
                DeleteKbAfter([Begin("delete_kb", "") EXCEPT !.purge = purge],
                              "entry", OK, {}, {})]
    /\ started' = started + 1
    /\ UNCHANGED <<pcMain, mainCalls, kb_instance, kb_id, aws, files,
                   lastCleanup>>

Next ==
    \/ Setup
    \/ \E t \in Threads :
          \/ Upload(t)
          \/ Query(t)
          \/ Status(t)
          \/ CleanupStart(t)
          \/ DeleteKb(t)
          \/ Retire(t)

Spec == Init /\ [][Next]_vars

\* The manager used as a component: the program, and callers of delete_kb.
NextManager == Next \/ \E t \in Threads : DirectDeleteKb(t)

SpecManager == Init /\ [][NextManager]_vars

\* ------------------------------------------------------------------ claims

Done(t) == req[t].pc = "done"

Indices(calls, op) == {i \in DOMAIN calls : calls[i].op = op}

Failed(calls, op) == \E i \in Indices(calls, op) : calls[i].err # OK

Succeeded(calls, op) == \E i \in Indices(calls, op) : calls[i].err = OK

S3Deletions == {"delete_objects", "delete_bucket"}

Deletions == {"delete_data_source", "delete_knowledge_base"} \cup S3Deletions

ProvisionedWhole == Len(mainCalls) = 6 /\ \A i \in DOMAIN mainCalls : mainCalls[i].err = OK

\* C1: in a run of delete_kb(delete_s3_bucket=True) with kb_id set, every
\* delete_data_source call comes before the delete_knowledge_base call, and
\* an S3 deletion call (delete_objects, delete_bucket) is issued only after
\* the delete_knowledge_base call.
C1_DeleteOrder ==
    \A t \in Threads :
        LET c == req[t].calls IN
        req[t].kind \in {"cleanup", "delete_kb"} /\ req[t].purge =>
            \A j \in DOMAIN c :
                /\ c[j].op = "delete_knowledge_base" =>
                      \A i \in Indices(c, "delete_data_source") : i < j
                /\ c[j].op = "delete_data_source" =>
                      \A i \in Indices(c, "delete_knowledge_base") : j < i
                /\ c[j].op \in S3Deletions =>
                      /\ \E i \in Indices(c, "delete_knowledge_base") : i < j
                      /\ \A i \in Indices(c, "delete_knowledge_base") : i < j

\* A cleanup that deleted a data source, the knowledge base, the objects and
\* the bucket.
C1_Witness ==
    \E t \in Threads :
        /\ req[t].kind = "cleanup" /\ Done(t) /\ req[t].status = 200
        /\ \A op \in Deletions : Succeeded(req[t].calls, op)

\* C2: a POST /upload that wrote a local file leaves no file at its path when
\* it returns, whichever way it returns.
C2_NoLocalFileAtReturn ==
    \A t \in Threads :
        req[t].kind = "upload" /\ Done(t) /\ req[t].saved => ~req[t].leftFile

\* C3: a provisioning step that fails is the last one issued, and it ends
\* the construction with the error raised.
C3_FailsFatally ==
    \A i \in DOMAIN mainCalls :
        mainCalls[i].err # OK => i = Len(mainCalls) /\ pcMain = "crashed"

\* C4: once the construction has failed, a delete_kb(delete_s3_bucket=True)
\* that returns has left none of the resources created before the failure.
C4_DeleteReclaims ==
    \A t \in Threads :
        /\ pcMain = "crashed"
        /\ req[t].kind = "delete_kb" /\ req[t].purge
        /\ Done(t) /\ ~req[t].unhandled
        => /\ ~bucket /\ ~role /\ ~policy
           /\ kbs = {} /\ dataSources = {}

\* C5: after a provisioning in which every step succeeded, a GET /cleanup
\* that answers success has left no data source, knowledge base, bucket,
\* object, role or policy.
C5_CleanupTearsDownAll ==
    \A t \in Threads :
        /\ ProvisionedWhole
        /\ req[t].kind = "cleanup" /\ Done(t) /\ req[t].status = 200
        => /\ dataSources = {} /\ kbs = {}
           /\ ~bucket /\ \A p \in Paths : objects[p] = Absent
           /\ ~role /\ ~policy

\* A knowledge base comes into being only in the provisioning step of the
\* main thread, before any request is served, and goes only in the
\* delete_knowledge_base step of a cleanup request.
C6_KbChange ==
    /\ (kbs' # kbs /\ kbs \subseteq kbs') =>
          /\ pcMain = "create_knowledge_base"
          /\ kbs = {}
          /\ \A t \in Threads : req[t] = Idle
    /\ ~(kbs \subseteq kbs') =>
          \E t \in Threads :
              /\ req[t].kind = "cleanup"
              /\ req[t].pc = "delete_knowledge_base"
              /\ req'[t] # req[t]

\* C6: at most one knowledge base of this process exists at any time; it is
\* created only by the provisioning at startup, by no request handler, and
\* it is removed only by a cleanup request.
C6_SingleKnowledgeBase ==
    [](Cardinality(kbs) <= 1) /\ [][C6_KbChange]_vars

\* The knowledge base was created at startup, served a request, and a cleanup
\* has removed it.
C6_Witness ==
    /\ kb_id # None /\ kbs = {}
    /\ \E t \in Threads :
          /\ req[t].kind = "cleanup" /\ Done(t)
          /\ Succeeded(req[t].calls, "delete_knowledge_base")

\* C7 as stated: a GET /cleanup that follows a finished GET /cleanup answers
\* success without having issued a deletion call, or answers with a JSON
\* error; it never ends in an unhandled exception.  (Read in the claim's
\* favour: any error of the service counts as its "not found" error.)
C7_SecondCleanupNoopOrNotFound ==
    \A t \in Threads :
        req[t].kind = "cleanup" /\ Done(t) /\ req[t].prev # "none" =>
            /\ ~req[t].unhandled
            /\ \/ /\ req[t].status = 200
                  /\ \A i \in DOMAIN req[t].calls : req[t].calls[i].op \notin Deletions
               \/ /\ req[t].status = 500 /\ req[t].json
                  /\ req[t].err # OK

\* C7, amended: a GET /cleanup that follows a GET /cleanup which answered
\* success answers 500 with the not-found error as JSON, issues no deletion
\* call, and does not end in an unhandled exception.
C7_CleanupAfterCleanup ==
    \A t \in Threads :
        req[t].kind = "cleanup" /\ req[t].prev = "ok" =>
            /\ \A i \in DOMAIN req[t].calls : req[t].calls[i].op \notin Deletions
            /\ Done(t) =>
                  /\ ~req[t].unhandled
                  /\ req[t].status = 500 /\ req[t].json
                  /\ req[t].err = NotFound

\* The second of two cleanups in succession has answered.
C7_Witness ==
    \E t \in Threads :
        /\ req[t].kind = "cleanup" /\ Done(t) /\ req[t].prev = "ok"
        /\ req[t].status = 500 /\ req[t].calls # <<>>

\* The filename has no '.', or what follows its last '.' is not 'pdf' in any
\* letter case.
LacksAllowedExtension(f) ==
    LET dots == {i \in 1..Len(f) : f[i] = "."} IN
    \/ dots = {}
    \/ LET last == CHOOSE i \in dots : \A j \in dots : j <= i
       IN  LowerStr(SubSeq(f, last + 1, Len(f))) # <<"p", "d", "f">>

\* C8: a POST /upload with no file part, an empty filename or a filename
\* that lacks the allowed extension is answered 400 with a JSON error at
\* once: no local file is written, no object uploaded, no ingestion started.
C8_BadUploadRejected ==
    \A t \in Threads :
        /\ req[t].kind = "upload" /\ req[t].method = "POST"
        /\ ~req[t].hasFile \/ LacksAllowedExtension(req[t].filename)
        => /\ Done(t) /\ req[t].status = 400
           /\ req[t].json /\ req[t].err # OK /\ ~req[t].unhandled
           /\ req[t].calls = <<>> /\ ~req[t].saved

\* "a.pdf.t" was refused.
C8_Witness ==
    \E t \in Threads :
        /\ req[t].kind = "upload" /\ Done(t) /\ req[t].hasFile
        /\ req[t].filename = <<"a", ".", "p", "d", "f", ".", "t">>
        /\ req[t].status = 400

\* C9: a POST /query whose query field is missing or empty is answered 400
\* with a JSON error at once; neither retrieve nor invoke_model is called.
C9_EmptyQueryRejected ==
    \A t \in Threads :
        /\ req[t].kind = "query" /\ req[t].method = "POST"
        /\ req[t].query \in {NoQuery, ""}
        => /\ Done(t) /\ req[t].status = 400
           /\ req[t].json /\ req[t].err # OK /\ ~req[t].unhandled
           /\ req[t].calls = <<>>

\* The empty query was refused.
C9_Witness ==
    \E t \in Threads :
        /\ req[t].kind = "query" /\ req[t].method = "POST" /\ Done(t)
        /\ req[t].query = "" /\ req[t].status = 400

\* C10: in a POST /query with a non-empty query, retrieve and invoke_model
\* are each called at most once, invoke_model never after a failed retrieve,
\* and a failed call ends the request with a 500 JSON response that carries
\* the call's error.
C10_QueryFailureIs500 ==
    \A t \in Threads :
        LET c == req[t].calls IN
        /\ req[t].kind = "query" /\ req[t].method = "POST"
        /\ req[t].query \notin {NoQuery, ""}
        => /\ Cardinality(Indices(c, "retrieve")) <= 1
           /\ Cardinality(Indices(c, "invoke_model")) <= 1
           /\ Failed(c, "retrieve") => Indices(c, "invoke_model") = {}
           /\ \A i \in DOMAIN c :
                 c[i].err # OK =>
                    /\ Done(t) /\ req[t].status = 500 /\ req[t].json
                    /\ req[t].err = c[i].err /\ ~req[t].unhandled

\* A query whose retrieval succeeded and whose generation failed.
C10_Witness ==
    \E t \in Threads :
        /\ req[t].kind = "query" /\ Done(t) /\ req[t].status = 500
        /\ Succeeded(req[t].calls, "retrieve")
        /\ Failed(req[t].calls, "invoke_model")

\* A name like report.pdf: only characters secure_filename keeps, and neither
\* '.' nor '_' at either end.
PlainName(f) ==
    /\ f # <<>>
    /\ \A i \in 1..Len(f) : f[i] \in SafeChars
    /\ f[1] \notin {".", "_"} /\ f[Len(f)] \notin {".", "_"}

C12_ExclusiveTempFile ==
    \A t \in Threads :
        ProvisionedWhole /\ req[t].kind = "upload" =>
            /\ req[t].pc = "s3_upload" => files[req[t].path] = t
            /\ Succeeded(req[t].calls, "upload_file") => req[t].sent = t

\* No request changes kb_instance or its kb_id, and a provisioned resource is
\* deleted only in a step of a cleanup request.
C13_HandleAndDeletions ==
    [][ /\ pcMain = "serving" => kb_instance' = kb_instance /\ kb_id' = kb_id
        /\ \/ ~(kbs \subseteq kbs')
           \/ ~(dataSources \subseteq dataSources')
           \/ bucket /\ ~bucket'
           \/ \E p \in Paths : objects[p] # Absent /\ objects'[p] = Absent
           => \E t \in Threads :
                 req[t].kind = "cleanup" /\ req'[t] # req[t] ]_vars

\* C13: a /query, /status or /upload request that starts while a GET /cleanup
\* is being handled ends in a response of its handler, 200, 400 or 500 with a
\* JSON error, never in an unhandled exception.  (The claim's other parts,
\* that no request changes the shared handle and only cleanup requests
\* delete, are C13_HandleAndDeletions.)
C13_RacingRequestsAnswered ==
    \A t \in Threads :
        /\ ProvisionedWhole
        /\ req[t].racing
        /\ req[t].kind \in {"query", "status", "upload"} /\ Done(t)
        => /\ ~req[t].unhandled
           /\ req[t].status \in {200, 400, 500}
           /\ req[t].status # 200 => req[t].json /\ req[t].err # OK

\* C14: in a POST /upload start_ingestion_job is called at most once and only
\* after the request's upload_file call succeeded; never after a failed
\* upload_file, never in a request answered 400; a failed start is not tried
\* again and the request ends with 500.
C14_IngestAfterUpload ==
    \A t \in Threads :
        LET r == req[t]
            c == r.calls
            starts == Indices(c, "start_ingestion_job")
        IN  r.kind = "upload" =>
               /\ Cardinality(starts) <= 1
               /\ \A j \in starts :
                     \E i \in Indices(c, "upload_file") : i < j /\ c[i].err = OK
               /\ Failed(c, "upload_file") => starts = {}
               /\ Done(t) /\ r.status = 400 => c = <<>>
               /\ Failed(c, "start_ingestion_job") =>
                     /\ r.pc \in {"exists", "remove", "done"}
                     /\ r.status = 500

\* An upload whose ingestion start failed has answered.
C14_Witness ==
    \E t \in Threads :
        /\ req[t].kind = "upload" /\ Done(t) /\ req[t].status = 500
        /\ Succeeded(req[t].calls, "upload_file")
        /\ Failed(req[t].calls, "start_ingestion_job")

S3Calls == {"list_objects_v2"} \cup S3Deletions

\* C15: delete_kb makes an S3 call only when purging was asked for and its
\* delete_knowledge_base call succeeded; when list_data_sources, a
\* delete_data_source or delete_knowledge_base fails it makes none and the
\* error reaches the caller (as the 500 of /cleanup); and with kb_id unset it
\* makes no call at all and returns.
C15_StorageUntouched ==
    \A t \in Threads :
        LET r == req[t]
            c == r.calls
        IN  r.kind \in {"cleanup", "delete_kb"} =>
               /\ \A j \in DOMAIN c :
                     c[j].op \in S3Calls =>
                        /\ r.purge
                        /\ \E i \in Indices(c, "delete_knowledge_base") :
                              i < j /\ c[i].err = OK
               /\ \A i \in DOMAIN c :
                     c[i].op \notin S3Calls /\ c[i].err # OK =>
                        /\ i = Len(c) /\ Done(t) /\ r.err = c[i].err
                        /\ IF r.kind = "cleanup"
                           THEN r.status = 500 /\ r.json /\ ~r.unhandled
                           ELSE r.unhandled
               /\ kb_id = None => c = <<>> /\ Done(t) /\ r.err = OK

\* delete_kb was asked to purge, its delete_knowledge_base call failed, and
\* the bucket is still there.
C15_Witness ==
    \E t \in Threads :
        /\ req[t].kind = "delete_kb" /\ req[t].purge /\ Done(t)
        /\ Failed(req[t].calls, "delete_knowledge_base")
        /\ req[t].unhandled /\ bucket
====
